---------------------------- MODULE Spec2Model ----------------------------
(***************************************************************************)
(* The incremental range cache of stage3: stockprices.py (one pickle file  *)
(* shared by all symbols) and earthquake_monitor.py (one pickle file, one  *)
(* series).  Every Streamlit session runs main() in its own thread, so the *)
(* cache file is shared state between the sessions.                        *)
(*                                                                         *)
(* A DataFrame is a sequence of rows; a row carries its index label (idx), *)
(* because DataFrame.equals compares the index as well as the values.      *)
(* Column dtypes are not modelled.                                         *)
(***************************************************************************)
EXTENDS Integers, Sequences, FiniteSets, TLC

\* ------------------------------------------------------------------ bounds
MaxTime == 3
MaxVal == 2
\* the clock's resolution: datetimes and event times are counted in ticks, and a
\* second has this many of them
TicksPerSecond == 2

Times == 0..MaxTime
Ends == 1..(MaxTime + 1)
Values == 1..MaxVal
Symbols == {"A", "B"}
Sessions == {"s1", "s2"}
\* script runs per behaviour: enough for a run and its repetition, or for one
\* run of each session
MaxRuns == Cardinality(Sessions)
Outcomes == {"ok", "error"}
QuakeOutcomes == {"ok", "http_error", "exception"}
USGS == "USGS"
MinMagnitudes == {0, MaxVal}

\* ------------------------------------------------------- DataFrame helpers
\* stockprices.py: timestamp / price / symbol
Row(i, t, v, s) == [idx |-> i, timestamp |-> t, price |-> v, symbol |-> s]

\* earthquake_monitor.py: timestamp / magnitude
QuakeRow(i, t, m) == [idx |-> i, timestamp |-> t, magnitude |-> m]

EmptyFrame == << >>

IsEmpty(df) == Len(df) = 0

\* df[df["symbol"] == symbol] : the index labels are kept
SelectSymbol(df, symbol) == SelectSeq(df, LAMBDA r : r.symbol = symbol)

\* df[df["symbol"] != symbol]
SelectOther(df, symbol) == SelectSeq(df, LAMBDA r : r.symbol /= symbol)

\* pd.concat([a, b]) : rows of a, then rows of b, labels kept
Concat(a, b) == a \o b

\* reset_index(drop=True) : labels 0..n-1 in row order
ResetIndex(df) == [i \in 1..Len(df) |-> [df[i] EXCEPT !.idx = i - 1]]

\* pd.concat([a, b], ignore_index=True)
ConcatIgnoreIndex(a, b) == ResetIndex(a \o b)

TimestampMin(df) == CHOOSE t \in {df[i].timestamp : i \in 1..Len(df)} :
                        \A j \in 1..Len(df) : t <= df[j].timestamp

TimestampMax(df) == CHOOSE t \in {df[i].timestamp : i \in 1..Len(df)} :
                        \A j \in 1..Len(df) : t >= df[j].timestamp

SameKey(r, q, subset) == \A c \in subset : r[c] = q[c]

RECURSIVE KeepFirst(_, _, _)
KeepFirst(df, i, subset) ==
    IF i > Len(df) THEN << >>
    ELSE IF \E j \in 1..(i - 1) : SameKey(df[j], df[i], subset)
         THEN KeepFirst(df, i + 1, subset)
         ELSE << df[i] >> \o KeepFirst(df, i + 1, subset)

\* a dedupe that drops nothing
DropDuplicatesNone(df, subset) == df

\* drop_duplicates(subset=[...]) : keep="first" is the default
DropDuplicates(df, subset) == KeepFirst(df, 1, subset)

RECURSIVE InsertSorted(_, _)
InsertSorted(r, sorted) ==
    IF sorted = << >> THEN << r >>
    ELSE IF r.timestamp < Head(sorted).timestamp THEN << r >> \o sorted
         ELSE << Head(sorted) >> \o InsertSorted(r, Tail(sorted))

RECURSIVE SortFrom(_, _)
SortFrom(df, i) ==
    IF i = 0 THEN << >> ELSE InsertSorted(df[i], SortFrom(df, i - 1))

\* sort_values("timestamp") : ascending, labels travel with their rows
SortValues(df) == SortFrom(df, Len(df))

\* DataFrame.equals : same shape, same index labels, same values
Equals(a, b) == a = b

\* df[df["timestamp"] >= start_time]
SelectFrom(df, start) == SelectSeq(df, LAMBDA r : r.timestamp >= start)

\* ------------------------------------------------------------------- state
VARIABLES
    app,              \* the script this deployment runs: "stock" or "quake"
    upstream,         \* the provider's data: upstream[series][t] = value, 0 = no record
    memo,             \* quake: st.cache_data's entries for fetch_earthquake_json
    revised,          \* the provider has republished a series
    cache_file,       \* CACHE_FILE: [exists, complete, df]; complete: the bytes are
                      \* a whole pickle, which read_pickle can decode
    runs,             \* script runs started so far
    pc,               \* per session: where its script run stands
    symbol,           \* per session: the arguments of update_cache
    start_time,
    end_time,
    min_magnitude,    \* per session, quake: the slider's value
    full_cache,       \* per session: the locals of update_cache (quake: cached_df)
    symbol_df,        \*                                         (quake: updated_df)
    earliest_cached,
    latest_cached,
    fetch_log,        \* per session: the fetch_stock_data calls of this run, in order
    st_errors,        \* per session: st.error messages shown by this run
    saved,            \* per session: this run wrote CACHE_FILE
    df_display,       \* per session: main's frame handed to the chart
    prev_run,         \* per session: the run before this one, when this run repeats it
    quiet             \* per session: since its run began, nothing but that run
                      \* changed the provider's data or the cache file

vars == << app, upstream, memo, revised, cache_file, runs, pc, symbol, start_time,
           end_time, min_magnitude, full_cache, symbol_df, earliest_cached, latest_cached, fetch_log,
           st_errors, saved, df_display, prev_run, quiet >>

env_vars == << app, upstream, memo, revised >>

local_vars == << symbol, start_time, end_time, min_magnitude, full_cache, symbol_df,
                 earliest_cached, latest_cached >>

NoFile == [exists |-> FALSE, complete |-> TRUE, df |-> EmptyFrame]

\* to_pickle opens the path for writing, which truncates the file, and then
\* writes the bytes: until the write is through, the file is not a whole pickle
Opened == [exists |-> TRUE, complete |-> FALSE, df |-> EmptyFrame]

Written(df) == [exists |-> TRUE, complete |-> TRUE, df |-> df]

\* read_pickle returns a frame
Readable(file) == file.exists => file.complete

NoRun == [valid |-> FALSE]

\* ---------------------------------------------------------------- provider
RECURSIVE HistoryRows(_, _, _, _)
HistoryRows(up, sym, lo, hi) ==
    IF lo >= hi THEN << >>
    ELSE IF lo \in Times /\ up[sym][lo] /= 0
         THEN << Row(0, lo, up[sym][lo], sym) >> \o HistoryRows(up, sym, lo + 1, hi)
         ELSE HistoryRows(up, sym, lo + 1, hi)

\* fetch_stock_data(symbol, start_time, end_time): the frame it returns.  "ok":
\* the provider's rows in [start, end), chronological, index 0..n-1, the symbol
\* assigned.  "error": the except branch, an empty frame.
FetchStockData(up, sym, lo, hi, outcome) ==
    IF outcome = "error" THEN EmptyFrame
    ELSE ResetIndex(HistoryRows(up, sym, lo, hi))

\* the st.error call of the except branch
FetchErrors(outcome) == IF outcome = "error" THEN 1 ELSE 0

\* an entry of fetch_log; hit: st.cache_data answered, no request was made
FetchCall(lo, hi, outcome, df, hit) ==
    [start |-> lo, end |-> hi, outcome |-> outcome, df |-> df, hit |-> hit]

\* --------------------------------------------------------------------- Init
SeriesOf(a) == IF a = "stock" THEN Symbols ELSE {USGS}

Setup(a) ==
    /\ app = a
    /\ \E closed \in Times \cup {MaxTime + 1} :
           upstream = [s \in SeriesOf(app) |->
                          [t \in Times |-> IF t = closed THEN 0 ELSE 1]]
    /\ memo = {}
    /\ min_magnitude = [s \in Sessions |-> 0]
    /\ revised = FALSE
    /\ cache_file = NoFile
    /\ runs = 0
    /\ pc = [s \in Sessions |-> "idle"]
    /\ symbol = [s \in Sessions |-> IF app = "stock" THEN "A" ELSE USGS]
    /\ start_time = [s \in Sessions |-> 0]
    /\ end_time = [s \in Sessions |-> 1]
    /\ full_cache = [s \in Sessions |-> EmptyFrame]
    /\ symbol_df = [s \in Sessions |-> EmptyFrame]
    /\ earliest_cached = [s \in Sessions |-> 0]
    /\ latest_cached = [s \in Sessions |-> 0]
    /\ fetch_log = [s \in Sessions |-> << >>]
    /\ st_errors = [s \in Sessions |-> 0]
    /\ saved = [s \in Sessions |-> FALSE]
    /\ df_display = [s \in Sessions |-> EmptyFrame]
    /\ prev_run = [s \in Sessions |-> NoRun]
    /\ quiet = [s \in Sessions |-> FALSE]

\* a deployment of stockprices.py, before its first run: no cache file
Init == Setup("stock")

\* a deployment of earthquake_monitor.py, before its first run
QuakeInit == Setup("quake")

\* ------------------------------------------------------------- environment
\* The provider republishes a symbol's history with other prices: history()
\* returns adjusted closes, which change with every dividend or split.
Revise(sym, v) ==
    /\ sym \in DOMAIN upstream
    /\ ~revised
    /\ \E t \in Times : upstream[sym][t] \notin {0, v}
    /\ upstream' = [upstream EXCEPT ![sym] =
                       [t \in Times |-> IF upstream[sym][t] = 0 THEN 0 ELSE v]]
    /\ revised' = TRUE
    /\ quiet' = [s \in Sessions |-> FALSE]
    /\ UNCHANGED << app, memo, cache_file, runs, pc, local_vars, fetch_log, st_errors,
                    saved, df_display, prev_run >>

\* ------------------------------------------------------------ update_cache
\* main() up to the call, and update_cache steps 1 and 2: load the whole cache,
\* take the symbol's slice and its cached window.
LoadCache(file) == IF file.exists THEN file.df ELSE EmptyFrame

\* a cached window whose lower edge lies one unit before the first cached row
EarliestCachedPrev(df, start, end) == IF IsEmpty(df) THEN end ELSE TimestampMin(df) - 1

EarliestCached(df, start, end) == IF IsEmpty(df) THEN end ELSE TimestampMin(df)

\* a cached window whose upper edge lies one unit past the last cached row
LatestCachedNext(df, start, end) == IF IsEmpty(df) THEN start ELSE TimestampMax(df) + 1

LatestCached(df, start, end) == IF IsEmpty(df) THEN start ELSE TimestampMax(df)

ThisRun(s) ==
    [valid |-> TRUE, df_display |-> df_display[s], st_errors |-> st_errors[s]]

Load(s, sym, start, end) ==
    /\ app = "stock"
    /\ pc[s] \in {"idle", "done"}
    /\ Readable(cache_file)
    /\ runs < MaxRuns
    /\ start < end
    /\ runs' = runs + 1
    /\ symbol' = [symbol EXCEPT ![s] = sym]
    /\ start_time' = [start_time EXCEPT ![s] = start]
    /\ end_time' = [end_time EXCEPT ![s] = end]
    /\ LET cache == LoadCache(cache_file)
           slice == SelectSymbol(cache, sym)
       IN /\ full_cache' = [full_cache EXCEPT ![s] = cache]
          /\ symbol_df' = [symbol_df EXCEPT ![s] = slice]
          /\ earliest_cached' = [earliest_cached EXCEPT ![s] = EarliestCached(slice, start, end)]
          /\ latest_cached' = [latest_cached EXCEPT ![s] = LatestCached(slice, start, end)]
    /\ prev_run' = [prev_run EXCEPT ![s] =
                      IF pc[s] = "done" /\ sym = symbol[s] /\ start = start_time[s]
                         /\ end = end_time[s] /\ quiet[s]
                      THEN ThisRun(s) ELSE NoRun]
    /\ quiet' = [quiet EXCEPT ![s] = TRUE]
    /\ fetch_log' = [fetch_log EXCEPT ![s] = << >>]
    /\ st_errors' = [st_errors EXCEPT ![s] = 0]
    /\ saved' = [saved EXCEPT ![s] = FALSE]
    /\ pc' = [pc EXCEPT ![s] = "earlier"]
    /\ UNCHANGED << env_vars, cache_file, min_magnitude, df_display >>

\* step 3: fetch what is missing before the cached window
MergeEarlier(df, earlier) == IF IsEmpty(earlier) THEN df ELSE Concat(earlier, df)

FetchEarlier(s, outcome) ==
    /\ app = "stock"
    /\ pc[s] = "earlier"
    /\ IF start_time[s] < earliest_cached[s]
       THEN LET earlier == FetchStockData(upstream, symbol[s], start_time[s],
                                          earliest_cached[s], outcome)
            IN /\ symbol_df' = [symbol_df EXCEPT ![s] = MergeEarlier(@, earlier)]
               /\ fetch_log' = [fetch_log EXCEPT ![s] =
                      Append(@, FetchCall(start_time[s], earliest_cached[s], outcome, earlier, FALSE))]
               /\ st_errors' = [st_errors EXCEPT ![s] = @ + FetchErrors(outcome)]
       ELSE /\ outcome = "ok"
            /\ UNCHANGED << symbol_df, fetch_log, st_errors >>
    /\ pc' = [pc EXCEPT ![s] = "newer"]
    /\ UNCHANGED << env_vars, cache_file, runs, symbol, start_time, end_time,
                    min_magnitude, full_cache, earliest_cached, latest_cached, saved, df_display,
                    prev_run, quiet >>

\* step 4: fetch what is missing after the cached window
MergeNewer(df, newer) == IF IsEmpty(newer) THEN df ELSE Concat(df, newer)

FetchNewer(s, outcome) ==
    /\ app = "stock"
    /\ pc[s] = "newer"
    /\ IF end_time[s] > latest_cached[s]
       THEN LET newer == FetchStockData(upstream, symbol[s], latest_cached[s],
                                        end_time[s], outcome)
            IN /\ symbol_df' = [symbol_df EXCEPT ![s] = MergeNewer(@, newer)]
               /\ fetch_log' = [fetch_log EXCEPT ![s] =
                      Append(@, FetchCall(latest_cached[s], end_time[s], outcome, newer, FALSE))]
               /\ st_errors' = [st_errors EXCEPT ![s] = @ + FetchErrors(outcome)]
       ELSE /\ outcome = "ok"
            /\ UNCHANGED << symbol_df, fetch_log, st_errors >>
    /\ pc' = [pc EXCEPT ![s] = "persist"]
    /\ UNCHANGED << env_vars, cache_file, runs, symbol, start_time, end_time,
                    min_magnitude, full_cache, earliest_cached, latest_cached, saved, df_display,
                    prev_run, quiet >>

\* step 5: normalise, dedupe, sort
Normalise(df) ==
    IF IsEmpty(df) THEN df
    ELSE ResetIndex(SortValues(DropDuplicates(df, {"timestamp", "symbol"})))

\* step 6: the symbol's slice changed
SliceChanged(df, cache, sym) == ~Equals(df, SelectSymbol(cache, sym))

\* a write-back of the symbol's slice alone
FullCacheUpdatedSymbolOnly(cache, sym, df) == ResetIndex(df)

\* step 6: the frame written back
FullCacheUpdated(cache, sym, df) == ConcatIgnoreIndex(SelectOther(cache, sym), df)

\* main: restrict display to the requested period
DfDisplay(df, start, end) == SelectFrom(df, start)

\* steps 5 and 6, the return, and main's display frame
Persist(s) ==
    /\ app = "stock"
    /\ pc[s] = "persist"
    /\ LET df == Normalise(symbol_df[s])
           changed == SliceChanged(df, full_cache[s], symbol[s])
       IN /\ symbol_df' = [symbol_df EXCEPT ![s] = df]
          /\ saved' = [saved EXCEPT ![s] = changed]
          /\ cache_file' =
                 IF changed
                 THEN Written(FullCacheUpdated(full_cache[s], symbol[s], df))
                 ELSE cache_file
          /\ df_display' = [df_display EXCEPT ![s] = DfDisplay(df, start_time[s], end_time[s])]
          /\ quiet' = [q \in Sessions |-> quiet[q] /\ (q = s \/ ~changed)]
    /\ pc' = [pc EXCEPT ![s] = "done"]
    /\ UNCHANGED << env_vars, runs, symbol, start_time, end_time, min_magnitude,
                    full_cache, earliest_cached, latest_cached, fetch_log, st_errors,
                    prev_run >>

\* ---------------------------------------------- update_cache, storage faults
\* Step 1 on a file that is no whole pickle: read_pickle raises, nothing in
\* update_cache or main catches it, and the script run ends with the exception
\* before it reaches the "Force refresh" button.
LoadCorrupt(s, sym, start, end) ==
    /\ app = "stock"
    /\ pc[s] \in {"idle", "done"}
    /\ ~Readable(cache_file)
    /\ runs < MaxRuns
    /\ start < end
    /\ runs' = runs + 1
    /\ symbol' = [symbol EXCEPT ![s] = sym]
    /\ start_time' = [start_time EXCEPT ![s] = start]
    /\ end_time' = [end_time EXCEPT ![s] = end]
    /\ full_cache' = [full_cache EXCEPT ![s] = EmptyFrame]
    /\ symbol_df' = [symbol_df EXCEPT ![s] = EmptyFrame]
    /\ prev_run' = [prev_run EXCEPT ![s] = NoRun]
    /\ quiet' = [quiet EXCEPT ![s] = TRUE]
    /\ fetch_log' = [fetch_log EXCEPT ![s] = << >>]
    /\ st_errors' = [st_errors EXCEPT ![s] = 0]
    /\ saved' = [saved EXCEPT ![s] = FALSE]
    /\ pc' = [pc EXCEPT ![s] = "load_raised"]
    /\ UNCHANGED << env_vars, cache_file, min_magnitude, earliest_cached, latest_cached,
                    df_display >>

\* steps 5 and 6 of a run whose slice did not change: no write
PersistUnchanged(s) ==
    /\ pc[s] = "persist"
    /\ ~SliceChanged(Normalise(symbol_df[s]), full_cache[s], symbol[s])
    /\ Persist(s)

IOOutcomes == {"ok", "oserror"}

\* steps 5 and 6 of a run whose slice changed, up to to_pickle opening the file.
\* The open truncates the file; when it raises (no permission, no such
\* directory) the file is as it was and update_cache ends with the exception.
SaveOpen(s, io) ==
    /\ app = "stock"
    /\ pc[s] = "persist"
    /\ SliceChanged(Normalise(symbol_df[s]), full_cache[s], symbol[s])
    /\ symbol_df' = [symbol_df EXCEPT ![s] = Normalise(@)]
    /\ IF io = "ok"
       THEN /\ cache_file' = Opened
            /\ pc' = [pc EXCEPT ![s] = "writing"]
            /\ quiet' = [q \in Sessions |-> quiet[q] /\ q = s]
       ELSE /\ pc' = [pc EXCEPT ![s] = "save_raised"]
            /\ UNCHANGED << cache_file, quiet >>
    /\ UNCHANGED << env_vars, runs, symbol, start_time, end_time, min_magnitude,
                    full_cache, earliest_cached, latest_cached, fetch_log, st_errors,
                    saved, df_display, prev_run >>

\* to_pickle writes the bytes and closes the file, update_cache returns and main
\* builds its display frame.  When the write raises (disk full), the file
\* stays as far as it was written and update_cache ends with the exception.
SaveWrite(s, io) ==
    /\ app = "stock"
    /\ pc[s] = "writing"
    /\ IF io = "ok"
       THEN /\ cache_file' = Written(FullCacheUpdated(full_cache[s], symbol[s], symbol_df[s]))
            /\ saved' = [saved EXCEPT ![s] = TRUE]
            /\ df_display' = [df_display EXCEPT ![s] =
                                 DfDisplay(symbol_df[s], start_time[s], end_time[s])]
            /\ pc' = [pc EXCEPT ![s] = "done"]
       ELSE /\ pc' = [pc EXCEPT ![s] = "save_raised"]
            /\ UNCHANGED << cache_file, saved, df_display >>
    /\ UNCHANGED << env_vars, runs, local_vars, fetch_log, st_errors, prev_run, quiet >>

\* The server process dies while to_pickle is writing.
Kill(s) ==
    /\ pc[s] = "writing"
    /\ pc' = [pc EXCEPT ![s] = "killed"]
    /\ UNCHANGED << env_vars, cache_file, runs, local_vars, fetch_log, st_errors,
                    saved, df_display, prev_run, quiet >>

\* The server is started again, or the user reloads the page after an
\* exception: the next script run starts from the top.
Restart(s) ==
    /\ pc[s] \in {"killed", "save_raised", "load_raised"}
    /\ pc' = [pc EXCEPT ![s] = "idle"]
    /\ UNCHANGED << env_vars, cache_file, runs, local_vars, fetch_log, st_errors,
                    saved, df_display, prev_run, quiet >>

\* ------------------------------------------- earthquake_monitor.py, provider
\* The catalog's events in [lo, hi), newest first (the API's default order).
RECURSIVE Features(_, _, _)
Features(up, lo, hi) ==
    IF lo >= hi THEN << >>
    ELSE IF (hi - 1) \in Times /\ up[USGS][hi - 1] /= 0
         THEN << [time |-> hi - 1, mag |-> up[USGS][hi - 1]] >> \o Features(up, lo, hi - 1)
         ELSE Features(up, lo, hi - 1)

\* strftime('%Y-%m-%dT%H:%M:%S'): the datetime without its fraction of a second
Strftime(t) == t - (t % TicksPerSecond)

\* fetch_earthquake_response: the query carries the formatted start and end
FetchEarthquakeResponse(up, start_time_, end_time_) ==
    Features(up, Strftime(start_time_), Strftime(end_time_))

\* what a request made by fetch_earthquake_json returns: the parsed body on
\* status 200, {"features": []} after st.error on any other status
FetchEarthquakeJson(up, lo, hi, outcome) ==
    IF outcome = "ok" THEN FetchEarthquakeResponse(up, lo, hi) ELSE << >>

\* construct_earthquake_df: one row per event, labelled in the order received,
\* then sorted by timestamp
ConstructEarthquakeDf(features) ==
    SortValues([i \in 1..Len(features) |->
                   QuakeRow(i - 1, features[i].time, features[i].mag)])

MemoEntry(lo, hi, outcome, features) ==
    [start |-> lo, end |-> hi, outcome |-> outcome, features |-> features]

MemoHit(lo, hi) == {e \in memo : e.start = lo /\ e.end = hi}

\* One call of fetch_earthquake_json(lo, hi) under st.cache_data: the entry it
\* answers with.  A hit replays the stored entry (and its st.error); a miss makes
\* the request.
FetchAnswer(lo, hi, outcome) ==
    IF MemoHit(lo, hi) /= {}
    THEN CHOOSE e \in MemoHit(lo, hi) : TRUE
    ELSE MemoEntry(lo, hi, outcome, FetchEarthquakeJson(upstream, lo, hi, outcome))

\* ttl=3600: an hour passes without a run, and every entry has expired
MemoExpire ==
    /\ memo /= {}
    /\ \A s \in Sessions : pc[s] \in {"idle", "done", "crashed"}
    /\ memo' = {}
    /\ UNCHANGED << app, upstream, revised, cache_file, runs, pc, local_vars,
                    fetch_log, st_errors, saved, df_display, prev_run, quiet >>

\* ------------------------------------------ earthquake_monitor.py, update_cache
\* main() up to the call, and update_cache up to the cached window
QuakeLoad(s, start, end, min_mag) ==
    /\ app = "quake"
    /\ pc[s] \in {"idle", "done"}
    /\ Readable(cache_file)
    /\ runs < MaxRuns
    /\ start < end
    /\ runs' = runs + 1
    /\ start_time' = [start_time EXCEPT ![s] = start]
    /\ end_time' = [end_time EXCEPT ![s] = end]
    /\ min_magnitude' = [min_magnitude EXCEPT ![s] = min_mag]
    /\ LET cached_df == LoadCache(cache_file)
       IN /\ full_cache' = [full_cache EXCEPT ![s] = cached_df]
          /\ symbol_df' = [symbol_df EXCEPT ![s] = cached_df]
          /\ earliest_cached' = [earliest_cached EXCEPT ![s] =
                                    EarliestCached(cached_df, start, end)]
          /\ latest_cached' = [latest_cached EXCEPT ![s] =
                                  LatestCached(cached_df, start, end)]
    /\ prev_run' = [prev_run EXCEPT ![s] =
                      IF pc[s] = "done" /\ start = start_time[s] /\ end = end_time[s]
                         /\ min_mag = min_magnitude[s] /\ quiet[s]
                      THEN ThisRun(s) ELSE NoRun]
    /\ quiet' = [quiet EXCEPT ![s] = TRUE]
    /\ fetch_log' = [fetch_log EXCEPT ![s] = << >>]
    /\ st_errors' = [st_errors EXCEPT ![s] = 0]
    /\ saved' = [saved EXCEPT ![s] = FALSE]
    /\ pc' = [pc EXCEPT ![s] = "earlier"]
    /\ UNCHANGED << env_vars, cache_file, symbol, df_display >>

\* One fetch step of update_cache: the call, the frame built from its answer and
\* the concat, which runs whether or not the frame is empty.  An exception of
\* the request (requests.get, response.json) is caught nowhere: it ends the run.
QuakeFetch(s, lo, hi, outcome, before, next) ==
    LET hit == MemoHit(lo, hi) /= {}
        raised == ~hit /\ outcome = "exception"
        answer == FetchAnswer(lo, hi, outcome)
        df == ConstructEarthquakeDf(answer.features)
    IN /\ hit => outcome = "ok"
       /\ fetch_log' = [fetch_log EXCEPT ![s] =
              Append(@, FetchCall(lo, hi, IF raised THEN outcome ELSE answer.outcome,
                                  IF raised THEN EmptyFrame ELSE df, hit))]
       /\ IF raised
          THEN /\ pc' = [pc EXCEPT ![s] = "crashed"]
               /\ UNCHANGED << memo, symbol_df, st_errors >>
          ELSE /\ pc' = [pc EXCEPT ![s] = next]
               /\ memo' = memo \cup {answer}
               /\ st_errors' = [st_errors EXCEPT ![s] =
                      @ + (IF answer.outcome = "http_error" THEN 1 ELSE 0)]
               /\ symbol_df' = [symbol_df EXCEPT ![s] =
                      IF before THEN Concat(df, @) ELSE Concat(@, df)]

QuakeFetchEarlier(s, outcome) ==
    /\ app = "quake"
    /\ pc[s] = "earlier"
    /\ IF start_time[s] < earliest_cached[s]
       THEN QuakeFetch(s, start_time[s], earliest_cached[s], outcome, TRUE, "newer")
       ELSE /\ outcome = "ok"
            /\ pc' = [pc EXCEPT ![s] = "newer"]
            /\ UNCHANGED << memo, symbol_df, fetch_log, st_errors >>
    /\ UNCHANGED << app, upstream, revised, cache_file, runs, symbol, start_time,
                    end_time, min_magnitude, full_cache, earliest_cached,
                    latest_cached, saved, df_display, prev_run, quiet >>

QuakeFetchNewer(s, outcome) ==
    /\ app = "quake"
    /\ pc[s] = "newer"
    /\ IF end_time[s] > latest_cached[s]
       THEN QuakeFetch(s, latest_cached[s], end_time[s], outcome, FALSE, "persist")
       ELSE /\ outcome = "ok"
            /\ pc' = [pc EXCEPT ![s] = "persist"]
            /\ UNCHANGED << memo, symbol_df, fetch_log, st_errors >>
    /\ UNCHANGED << app, upstream, revised, cache_file, runs, symbol, start_time,
                    end_time, min_magnitude, full_cache, earliest_cached,
                    latest_cached, saved, df_display, prev_run, quiet >>

\* "if we fetched new data": the comparison is made before the dedupe
QuakeChanged(updated_df, cached_df) == ~Equals(updated_df, cached_df)

\* the frame written and returned when the comparison says changed
QuakeNormalise(updated_df) == SortValues(DropDuplicates(updated_df, {"timestamp"}))

\* main: the magnitude filter, then the start of the requested period
QuakeFiltered(df, min_mag, start) ==
    SelectFrom(SelectSeq(df, LAMBDA r : r.magnitude >= min_mag), start)

\* the save, the return, and main's filtered frame
QuakePersist(s) ==
    /\ app = "quake"
    /\ pc[s] = "persist"
    /\ LET changed == QuakeChanged(symbol_df[s], full_cache[s])
           df == IF changed THEN QuakeNormalise(symbol_df[s]) ELSE symbol_df[s]
       IN /\ symbol_df' = [symbol_df EXCEPT ![s] = df]
          /\ saved' = [saved EXCEPT ![s] = changed]
          /\ cache_file' = IF changed THEN Written(df) ELSE cache_file
          /\ df_display' = [df_display EXCEPT ![s] =
                               QuakeFiltered(df, min_magnitude[s], start_time[s])]
          /\ quiet' = [q \in Sessions |-> quiet[q] /\ (q = s \/ ~changed)]
    /\ pc' = [pc EXCEPT ![s] = "done"]
    /\ UNCHANGED << env_vars, runs, symbol, start_time, end_time, min_magnitude,
                    full_cache, earliest_cached, latest_cached, fetch_log, st_errors,
                    prev_run >>

\* ----------------------------------------------------------- force refresh
\* main: the "Force refresh" button, first half: if CACHE_FILE.exists()
RefreshCheck(s) ==
    /\ pc[s] = "done"
    /\ pc' = [pc EXCEPT ![s] = IF cache_file.exists THEN "unlink" ELSE "idle"]
    /\ UNCHANGED << env_vars, cache_file, runs, local_vars, fetch_log, st_errors,
                    saved, df_display, prev_run, quiet >>

\* second half: CACHE_FILE.unlink(), which raises FileNotFoundError when the
\* file is gone by now; then the script reruns
RefreshUnlink(s) ==
    /\ pc[s] = "unlink"
    /\ pc' = [pc EXCEPT ![s] = IF cache_file.exists THEN "idle" ELSE "crashed"]
    /\ cache_file' = NoFile
    /\ quiet' = [q \in Sessions |-> FALSE]
    /\ UNCHANGED << env_vars, runs, local_vars, fetch_log, st_errors, saved,
                    df_display, prev_run >>

\* ------------------------------------------------------------ specification
\* One interactive session, rerunning its script: the reference use.
Run(s) ==
    \/ \E sym \in Symbols, start \in Times, end \in Ends : Load(s, sym, start, end)
    \/ \E outcome \in Outcomes : FetchEarlier(s, outcome)
    \/ \E outcome \in Outcomes : FetchNewer(s, outcome)
    \/ Persist(s)
    \/ RefreshCheck(s)
    \/ RefreshUnlink(s)

Provider == \E sym \in Symbols, v \in Values : Revise(sym, v)

Next == Provider \/ Run("s1")

Spec == Init /\ [][Next]_vars

\* The same for earthquake_monitor.py.
QuakeRun(s) ==
    \/ \E start \in Times, end \in Ends, min_mag \in MinMagnitudes :
           QuakeLoad(s, start, end, min_mag)
    \/ \E outcome \in QuakeOutcomes : QuakeFetchEarlier(s, outcome)
    \/ \E outcome \in QuakeOutcomes : QuakeFetchNewer(s, outcome)
    \/ QuakePersist(s)
    \/ RefreshCheck(s)
    \/ RefreshUnlink(s)

QuakeProvider ==
    \/ \E v \in Values : Revise(USGS, v)
    \/ MemoExpire

QuakeNext == QuakeProvider \/ QuakeRun("s1")

SpecQuake == QuakeInit /\ [][QuakeNext]_vars

\* Two sessions at once on the same cache file, one script run each.
SymbolOf(s) == IF s = "s1" THEN "A" ELSE "B"

NextConcurrent ==
    \E s \in Sessions :
        \/ \E start \in Times, end \in Ends :
               pc[s] = "idle" /\ Load(s, SymbolOf(s), start, end)
        \/ \E outcome \in Outcomes : FetchEarlier(s, outcome)
        \/ \E outcome \in Outcomes : FetchNewer(s, outcome)
        \/ Persist(s)

SpecConcurrent == Init /\ [][NextConcurrent]_vars

\* Two sessions at once, one script run each, and the "Force refresh" button.
NextRefresh ==
    \E s \in Sessions :
        \/ \E start \in Times, end \in Ends :
               pc[s] = "idle" /\ Load(s, SymbolOf(s), start, end)
        \/ \E outcome \in Outcomes : FetchEarlier(s, outcome)
        \/ \E outcome \in Outcomes : FetchNewer(s, outcome)
        \/ Persist(s)
        \/ RefreshCheck(s)
        \/ RefreshUnlink(s)

SpecRefresh == Init /\ [][NextRefresh]_vars

\* One session on a disk that can fail and a server that can die.
StoreRun(s) ==
    \/ \E sym \in Symbols, start \in Times, end \in Ends : Load(s, sym, start, end)
    \/ \E sym \in Symbols, start \in Times, end \in Ends : LoadCorrupt(s, sym, start, end)
    \/ \E outcome \in Outcomes : FetchEarlier(s, outcome)
    \/ \E outcome \in Outcomes : FetchNewer(s, outcome)
    \/ PersistUnchanged(s)
    \/ \E io \in IOOutcomes : SaveOpen(s, io)
    \/ \E io \in IOOutcomes : SaveWrite(s, io)
    \/ Kill(s)
    \/ Restart(s)

StoreNext == StoreRun("s1")

SpecStore == Init /\ [][StoreNext]_vars

\* ----------------------------------------------------------------- claims
\* A frame's records without their index labels.
Records(df) ==
    [i \in 1..Len(df) |-> [c \in DOMAIN df[i] \ {"idx"} |-> df[i][c]]]

\* the observed quantity of a row
ValueOf(r) == IF app = "quake" THEN r.magnitude ELSE r.price

\* the rows of one series in a frame; the quake frames hold one series
SeriesRows(df, key) == IF app = "quake" THEN df ELSE SelectSymbol(df, key)

RecordSet(df) == {Records(df)[i] : i \in 1..Len(df)}

StrictlyAscending(df) ==
    \A i \in 1..Len(df), j \in 1..Len(df) : i < j => df[i].timestamp < df[j].timestamp

Stored(key) == SeriesRows(cache_file.df, key)

\* C1: once two concurrent runs for different symbols have both returned, the
\* cache file holds the records each of them merged.
C1_NoLostWrite ==
    (\A s \in Sessions : pc[s] = "done") =>
        \A s \in Sessions : RecordSet(symbol_df[s]) \subseteq RecordSet(Stored(symbol[s]))

\* C4: the stored rows of every symbol are strictly ascending by timestamp, so
\* no two of them share a timestamp.
C4_SortInvariant == \A key \in SeriesOf(app) : StrictlyAscending(Stored(key))

\* a run that refetched the boundary record, merged it with the cached rows of
\* its symbol and saved at least three rows
C4_Witness ==
    \E s \in Sessions :
        /\ pc[s] = "done" /\ saved[s]
        /\ \E i \in 1..Len(fetch_log[s]) :
               \E r \in RecordSet(fetch_log[s][i].df) :
                   \E q \in RecordSet(SeriesRows(full_cache[s], symbol[s])) :
                       q.timestamp = r.timestamp
        /\ Len(Stored(symbol[s])) >= 3


Returned(s) == pc[s] = "done"

CachedSlice(s) == SeriesRows(full_cache[s], symbol[s])

TimestampsOf(df) == {df[i].timestamp : i \in 1..Len(df)}

RowsAt(df, t) == {i \in 1..Len(df) : df[i].timestamp = t}

\* what a run merged, in the order it was fetched: the cached rows (earlier
\* runs), then the results of this run's fetches
MergeInputs(s) ==
    << CachedSlice(s) >> \o [i \in 1..Len(fetch_log[s]) |-> fetch_log[s][i].df]

LaterFetchedPrice(inputs, t) ==
    LET k == CHOOSE i \in 1..Len(inputs) :
                 /\ RowsAt(inputs[i], t) /= {}
                 /\ \A j \in (i + 1)..Len(inputs) : RowsAt(inputs[j], t) = {}
        r == CHOOSE i \in RowsAt(inputs[k], t) : TRUE
    IN ValueOf(inputs[k][r])

\* C3: of the merged records with one timestamp the merge keeps exactly one,
\* the one fetched last; a freshly fetched record replaces the cached one.
C3_LastWriteWins ==
    \A s \in Sessions :
        Returned(s) =>
            \A i \in 1..Len(MergeInputs(s)) :
                \A t \in TimestampsOf(MergeInputs(s)[i]) :
                    /\ Cardinality(RowsAt(symbol_df[s], t)) = 1
                    /\ \A r \in RowsAt(symbol_df[s], t) :
                           ValueOf(symbol_df[s][r]) = LaterFetchedPrice(MergeInputs(s), t)

InWindow(df, start, end, min_value) ==
    SelectSeq(df, LAMBDA r : /\ start <= r.timestamp /\ r.timestamp < end
                             /\ ValueOf(r) >= min_value)

\* C5: the caller gets exactly the merged records with start <= timestamp < end
\* (and, with the magnitude filter, value >= min_magnitude), ascending; none at
\* or after end.
C5_ReturnsWindow ==
    \A s \in Sessions :
        Returned(s) =>
            /\ Records(df_display[s]) = Records(InWindow(symbol_df[s], start_time[s], end_time[s],
                                             min_magnitude[s]))
            /\ StrictlyAscending(df_display[s])

\* C6: a run that saves leaves the stored records of every other symbol as they
\* were: the same records in the same order.
C6_Isolation ==
    [][\A s \in Sessions :
          (pc[s] = "persist" /\ pc'[s] = "done" /\ saved'[s]) =>
              \A b \in Symbols \ {symbol[s]} :
                  Records(SelectSymbol(cache_file'.df, b))
                      = Records(SelectSymbol(cache_file.df, b))]_vars

\* a run for one symbol saved into a file that holds rows of another symbol
C6_Witness ==
    \E s \in Sessions :
        /\ Returned(s) /\ saved[s]
        /\ ~IsEmpty(SelectOther(full_cache[s], symbol[s]))
        /\ ~IsEmpty(symbol_df[s])

FetchRanges(log) == [i \in 1..Len(log) |-> << log[i].start, log[i].end >>]

Fetched(s) == pc[s] \in {"persist", "done"}

\* C7: with nothing cached for the symbol, a run fetches once, [start, end).
C7_EmptyCoverageOneFetch ==
    \A s \in Sessions :
        (Fetched(s) /\ IsEmpty(CachedSlice(s))) =>
            FetchRanges(fetch_log[s]) = << << start_time[s], end_time[s] >> >>

Earliest(df) == CHOOSE t \in TimestampsOf(df) : \A u \in TimestampsOf(df) : t <= u

Latest(df) == CHOOSE t \in TimestampsOf(df) : \A u \in TimestampsOf(df) : t >= u

MissingRanges(df, start, end) ==
    (IF start < Earliest(df) THEN << << start, Earliest(df) >> >> ELSE << >>)
        \o (IF end > Latest(df) THEN << << Latest(df), end >> >> ELSE << >>)

\* C8: with coverage [earliest, latest], a run fetches [start, earliest) iff
\* start < earliest, [latest, end) iff end > latest, and nothing else.
C8_GapMinimality ==
    \A s \in Sessions :
        (Fetched(s) /\ ~IsEmpty(CachedSlice(s))) =>
            FetchRanges(fetch_log[s])
                = MissingRanges(CachedSlice(s), start_time[s], end_time[s])

\* coverage [T1, T3], request [T0, T2) with T0 < T1 < T2 < T3: one fetch, [T0, T1)
C8_Witness ==
    \E s \in Sessions :
        /\ Fetched(s) /\ ~IsEmpty(CachedSlice(s))
        /\ start_time[s] < Earliest(CachedSlice(s))
        /\ Earliest(CachedSlice(s)) < end_time[s]
        /\ end_time[s] < Latest(CachedSlice(s))
        /\ FetchRanges(fetch_log[s]) = << << start_time[s], Earliest(CachedSlice(s)) >> >>

AllFetchesFailed(s) ==
    /\ fetch_log[s] /= << >>
    /\ \A i \in 1..Len(fetch_log[s]) : fetch_log[s][i].outcome /= "ok"

Ended(s) == pc[s] \in {"done", "crashed"}

\* C10: when every fetch of a run failed, the run ends in an error if nothing
\* was cached for the symbol, and returns the cached records, with the failures
\* shown, if something was.
C10_NoDataIsAnError ==
    \A s \in Sessions :
        (Ended(s) /\ AllFetchesFailed(s)) =>
            IF IsEmpty(CachedSlice(s))
            THEN ~Returned(s)
            ELSE /\ Returned(s)
                 /\ Records(symbol_df[s]) = Records(CachedSlice(s))
                 /\ st_errors[s] > 0


\* C2: a run that repeats the run before it (same arguments, the provider's
\* data and the cache file untouched in between, no fetch failing) shows the same
\* records and does not write the cache file.
C2_Idempotence ==
    \A s \in Sessions :
        (/\ Returned(s) /\ prev_run[s].valid /\ quiet[s]
         /\ prev_run[s].st_errors = 0 /\ st_errors[s] = 0) =>
            /\ Records(df_display[s]) = Records(prev_run[s].df_display)
            /\ ~saved[s]

OkFetches(s) == {i \in 1..Len(fetch_log[s]) : fetch_log[s][i].outcome = "ok"}

\* C9: a run with a gap on either side of the cached window, one fetch
\* succeeding and one failing, ends without an error, returns the cached records
\* and those of the successful fetch, and shows the failure.
C9_PartialFailure ==
    \A s \in Sessions :
        (/\ Ended(s) /\ ~IsEmpty(CachedSlice(s))
         /\ Len(fetch_log[s]) = 2 /\ Cardinality(OkFetches(s)) = 1) =>
            /\ Returned(s)
            /\ \A r \in RecordSet(CachedSlice(s)) :
                   \E q \in RecordSet(symbol_df[s]) : q.timestamp = r.timestamp
            /\ \A i \in OkFetches(s) :
                   \A r \in RecordSet(fetch_log[s][i].df) :
                       \E q \in RecordSet(symbol_df[s]) : q.timestamp = r.timestamp
            /\ st_errors[s] > 0


\* the server process died while a run was writing the cache file
DiedDuringSave == \E s \in Sessions : pc[s] = "killed"

\* C11: the cache file is never left partially written: after the process died
\* during a save, the file is a whole pickle (the old content or the new).
C11_AtomicPersistence == DiedDuringSave => Readable(cache_file)

LoadRaised(s) == pc[s] = "load_raised"

\* C12: a run that finds a cache file it cannot decode does not end with the
\* exception: it goes on with an empty cache.
C12_CorruptStoreIsEmpty == \A s \in Sessions : ~LoadRaised(s)

SaveRaised(s) == pc[s] = "save_raised"

\* C14: a run whose write of the cache file fails still returns: the records
\* it merged reach the caller.
C14_WriteErrorKeepsData ==
    \A s \in Sessions :
        (SaveRaised(s) \/ Returned(s)) =>
            /\ Returned(s)
            /\ Records(df_display[s])
                   = Records(DfDisplay(symbol_df[s], start_time[s], end_time[s]))

\* the run ended with the FileNotFoundError of CACHE_FILE.unlink(); nothing else
\* raises in a run of stockprices.py on a sound disk
UnlinkRaised(s) == app = "stock" /\ pc[s] = "crashed"

\* the button's handler has run to its end
Cleared(s) == pc[s] = "idle" /\ runs > 0

\* C13: "Force refresh" never fails, also when two sessions press it at the
\* same time, and once every session has pressed it no cache file is left.
C13_ClearIdempotent ==
    /\ \A s \in Sessions : ~UnlinkRaised(s)
    /\ (\A s \in Sessions : Cleared(s)) => ~cache_file.exists

InRange(r, call) == call.start <= r.timestamp /\ r.timestamp < call.end

\* C15: what a fetch for [a, b) returns outside [a, b) is dropped before the
\* merge: every merged record was cached before or lies in the range of one of
\* this run's fetches.
C15_RefiltersFetched ==
    \A s \in Sessions :
        Fetched(s) =>
            \A r \in RecordSet(symbol_df[s]) :
                \/ r \in RecordSet(CachedSlice(s))
                \/ \E i \in 1..Len(fetch_log[s]) : InRange(r, fetch_log[s][i])

\* the provider's timestamps of a series between two times, both included
UpstreamTimes(key, lo, hi) == {t \in Times : upstream[key][t] /= 0 /\ lo <= t /\ t <= hi}

\* C16: the stored rows of a series are the provider's records between the
\* first and the last stored timestamp, none of them missing; as long as the
\* provider has not republished the series, they carry the provider's values.
C16_NoHoles ==
    \A key \in SeriesOf(app) :
        LET stored == Stored(key)
        IN ~IsEmpty(stored) =>
               /\ TimestampsOf(stored) = UpstreamTimes(key, Earliest(stored), Latest(stored))
               /\ ~revised =>
                      \A i \in 1..Len(stored) :
                          ValueOf(stored[i]) = upstream[key][stored[i].timestamp]

\* a run for a window that lies apart from the cached window of its symbol
\* stored at least three rows, every fetch answered
C16_Witness ==
    \E s \in Sessions :
        /\ Returned(s) /\ saved[s] /\ ~revised
        /\ ~IsEmpty(CachedSlice(s))
        /\ \/ end_time[s] < Earliest(CachedSlice(s))
           \/ start_time[s] > Latest(CachedSlice(s))
        /\ \A i \in 1..Len(fetch_log[s]) : fetch_log[s][i].outcome = "ok"
        /\ Len(Stored(symbol[s])) >= 3

=============================================================================
